---- MODULE Spec2Model ----
(***************************************************************************)
(* A model of call_screen_openai_tts.py: the prompt builder, the JSON      *)
(* parse-with-fallback, the streaming speech synthesis, the per-OS         *)
(* playback dispatch and the screen_mock_call pipeline that sequences      *)
(* them.                                                                   *)
(*                                                                         *)
(* Text is a sequence of tokens.  A token is one character of input text   *)
(* or one literal chunk of the program text; JSON text is a sequence of    *)
(* lexical tokens.  Decoded JSON values are nodes [t, s, kids].            *)
(***************************************************************************)
EXTENDS Integers, Sequences, FiniteSets, TLC

\* ------------------------------------------------------------------ bounds
MaxLen == 3          \* longest transcript, in characters
MaxRespLen == 2      \* longest enumerated classification output, in tokens
MaxChunks == 1       \* audio chunks a stream delivers at most

\* ------------------------------------------------------- sequences of text
RECURSIVE SeqsUpTo(_, _)
SeqsUpTo(S, n) ==
    IF n = 0 THEN {<<>>}
    ELSE LET shorter == SeqsUpTo(S, n - 1)
         IN  shorter \cup {Append(s, x) : s \in {q \in shorter : Len(q) = n - 1}, x \in S}

\* needle in haystack, Python's `needle in haystack` on str
Contains(haystack, needle) ==
    \E i \in 0..(Len(haystack) - Len(needle)) :
        \A j \in 1..Len(needle) : haystack[i + j] = needle[j]

\* sep.join(parts)
RECURSIVE Join(_, _)
Join(sep, parts) ==
    IF Len(parts) = 0 THEN <<>>
    ELSE IF Len(parts) = 1 THEN parts[1]
    ELSE parts[1] \o sep \o Join(sep, Tail(parts))

\* str(n) for n >= 0: the decimal digits
Digit(d) == CASE d = 0 -> "0" [] d = 1 -> "1" [] d = 2 -> "2" [] d = 3 -> "3"
              [] d = 4 -> "4" [] d = 5 -> "5" [] d = 6 -> "6" [] d = 7 -> "7"
              [] d = 8 -> "8" [] d = 9 -> "9"
RECURSIVE IntToStr(_)
IntToStr(n) == IF n < 10 THEN <<Digit(n)>> ELSE Append(IntToStr(n \div 10), Digit(n % 10))

\* ---------------------------------------------------------- SECURITY_RULES
SECURITY_RULES ==
    << <<"The user is a 79-year-old man. Treat all unexpected calls with extra caution.">>,
       <<"If the caller mentions job sites such as Indeed or LinkedIn, treat this as suspicious ",
         "unless there is strong evidence that the user is actively expecting that call.">>,
       <<"If the caller asks for bank account details, credit/debit card numbers, PINs, ",
         "one-time codes, or passwords, classify the call as HIGH RISK.">>,
       <<"If the caller pressures the user with urgency (e.g., 'act now', 'you will be arrested', ",
         "'your account will be closed today'), this is a strong scam indicator.">>,
       <<"If the caller asks the user to install remote access software, classify as HIGH RISK.">>,
       <<"If the caller claims to be from a government body, bank, or tech company but cannot ",
         "provide clear verifiable information, treat as suspicious.">> >>

\* ------------------------------------------------------------- CallContext
DefaultUserAge == 79
NoneStr == [some |-> FALSE, val |-> <<>>]
Some(s) == [some |-> TRUE, val |-> s]
CallContext(cid, ctype) == [caller_id |-> cid, call_type |-> ctype, user_age |-> DefaultUserAge]

\* `x or "Unknown"` on an Optional[str]: None and "" are both falsy
OrUnknown(x) == IF x.some /\ Len(x.val) > 0 THEN x.val ELSE <<"U", "n", "k", "n", "o", "w", "n">>

\* ---------------------------------------------------------- build_ai_input
RulesText ==
    Join(<<"\n">>, [i \in 1..Len(SECURITY_RULES) |-> <<"- ">> \o SECURITY_RULES[i]])

Quote == "\""

\* a builder that escapes the transcript's quote characters before embedding it
build_ai_input_escaping(mock_call_text, context) ==
    <<"\nYou are screening a phone call for an elderly user.\n\nUser profile:\n- Age: ">>
    \o IntToStr(context.user_age)
    \o <<" years old\n- Name: Micheal\n\nCall context:\n- Caller ID: ">>
    \o OrUnknown(context.caller_id)
    \o <<"\n- Call type: ">>
    \o context.call_type
    \o <<"\n\nSecurity rules you MUST follow:\n">>
    \o RulesText
    \o <<"\n\nBelow is the transcript ... \n\nCALLER TRANSCRIPT:\n", Quote, Quote, Quote>>
    \o [i \in 1..Len(mock_call_text) |->
            IF mock_call_text[i] = Quote THEN "'" ELSE mock_call_text[i]]
    \o <<Quote, Quote, Quote, "\n\nYour tasks: ... Respond in **JSON only** ...\n">>

build_ai_input(mock_call_text, context) ==
    <<"\nYou are screening a phone call for an elderly user.\n\nUser profile:\n- Age: ">>
    \o IntToStr(context.user_age)
    \o <<" years old\n- Name: Micheal\n\nCall context:\n- Caller ID: ">>
    \o OrUnknown(context.caller_id)
    \o <<"\n- Call type: ">>
    \o context.call_type
    \o <<"\n\nSecurity rules you MUST follow:\n">>
    \o RulesText
    \o <<"\n\nBelow is the transcript ... \n\nCALLER TRANSCRIPT:\n", Quote, Quote, Quote>>
    \o mock_call_text
    \o <<Quote, Quote, Quote, "\n\nYour tasks: ... Respond in **JSON only** ...\n">>

\* -------------------------------------------------------------- JSON text
FALLBACK == "We cannot proceed with this call. Goodbye."
KEY == "spoken_response_to_caller"

\* lexical tokens of a JSON text; the string tokens carry their quotes and escapes
KeyTok == "\"spoken_response_to_caller\""
KeyEscTok == "\"spoken\\u005fresponse_to_caller\""
OtherKeyTok == "\"classification\""
LineTok == "\"Please call back later.\""
ScamTok == "\"likely_scam\""
StringToks == {KeyTok, KeyEscTok, OtherKeyTok, LineTok, ScamTok}
NumberToks == {"42"}

\* the str a JSON string token decodes to: quotes stripped, escapes resolved
StrContent(tok) ==
    CASE tok = KeyTok -> "spoken_response_to_caller"
      [] tok = KeyEscTok -> "spoken_response_to_caller"
      [] tok = OtherKeyTok -> "classification"
      [] tok = LineTok -> "Please call back later."
      [] tok = ScamTok -> "likely_scam"

\* decoded values: None, str, int, list, dict
Node(t, s, kids) == [t |-> t, s |-> s, kids |-> kids]
NoneNode == Node("null", "", <<>>)
StrNode(s) == Node("str", s, <<>>)
NumNode(lit) == Node("num", lit, <<>>)
ListNode(items) == Node("list", "", items)
Member(k, v) == Node("member", k, <<v>>)
DictNode(members) == Node("dict", "", members)

\* d[k] = v on an insertion-ordered dict: a repeated key keeps its place, takes the new value
DictSet(members, k, v) ==
    IF \E i \in 1..Len(members) : members[i].s = k
    THEN [i \in 1..Len(members) |-> IF members[i].s = k THEN Member(k, v) ELSE members[i]]
    ELSE Append(members, Member(k, v))

Ok(v, next) == [ok |-> TRUE, val |-> v, next |-> next]
Fail(at) == [ok |-> FALSE, val |-> NoneNode, next |-> at]

RECURSIVE ParseValue(_, _), ParseElements(_, _, _), ParseMembers(_, _, _)
ParseValue(toks, i) ==
    IF i > Len(toks) THEN Fail(i)
    ELSE CASE toks[i] = "null" -> Ok(NoneNode, i + 1)
           [] toks[i] \in StringToks -> Ok(StrNode(StrContent(toks[i])), i + 1)
           [] toks[i] \in NumberToks -> Ok(NumNode(toks[i]), i + 1)
           [] toks[i] = "[" ->
                IF i + 1 <= Len(toks) /\ toks[i + 1] = "]"
                THEN Ok(ListNode(<<>>), i + 2)
                ELSE ParseElements(toks, i + 1, <<>>)
           [] toks[i] = "{" ->
                IF i + 1 <= Len(toks) /\ toks[i + 1] = "}"
                THEN Ok(DictNode(<<>>), i + 2)
                ELSE ParseMembers(toks, i + 1, <<>>)
           [] OTHER -> Fail(i)

ParseElements(toks, i, acc) ==
    LET r == ParseValue(toks, i)
    IN  IF ~r.ok THEN r
        ELSE IF r.next > Len(toks) THEN Fail(r.next)
        ELSE IF toks[r.next] = "," THEN ParseElements(toks, r.next + 1, Append(acc, r.val))
        ELSE IF toks[r.next] = "]" THEN Ok(ListNode(Append(acc, r.val)), r.next + 1)
        ELSE Fail(r.next)

ParseMembers(toks, i, acc) ==
    IF i + 1 > Len(toks) \/ toks[i] \notin StringToks \/ toks[i + 1] # ":" THEN Fail(i)
    ELSE LET r == ParseValue(toks, i + 2)
             now == DictSet(acc, StrContent(toks[i]), r.val)
         IN  IF ~r.ok THEN r
             ELSE IF r.next > Len(toks) THEN Fail(r.next)
             ELSE IF toks[r.next] = "," THEN ParseMembers(toks, r.next + 1, now)
             ELSE IF toks[r.next] = "}" THEN Ok(DictNode(now), r.next + 1)
             ELSE Fail(r.next)

\* json.loads(text): one value, then end of text; anything else is a JSONDecodeError
json_loads(text) ==
    LET r == ParseValue(text, 1)
    IN  IF r.ok /\ r.next = Len(text) + 1 THEN r ELSE Fail(r.next)

\* a lookup that always answers the default
dict_get_ignoring_value(members, key, default) == default

\* result.get(key, default) on a dict
dict_get(members, key, default) ==
    IF \E i \in 1..Len(members) : members[i].s = key
    THEN (CHOOSE m \in {members[i] : i \in 1..Len(members)} : m.s = key).kids[1]
    ELSE default

\* ------------------------------------------------------------------ inputs
TranscriptAlphabet == {"a", Quote}
Transcripts == SeqsUpTo(TranscriptAlphabet, MaxLen)
CallerIds == {NoneStr, Some(<<>>), Some(<<"+", "3">>)}
CallTypes == {<<"incoming">>}

RespAlphabet == {"{", "}", "[", "]", "null", "not"}
SampleTexts ==
    { <<"not", "json">>,
      <<"{", KeyTok, ":", LineTok, "}">>,
      <<"{", KeyTok, ":", "null", "}">>,
      <<"{", KeyTok, ":", "[", LineTok, ",", "42", "]", "}">>,
      <<"{", KeyEscTok, ":", LineTok, "}">>,
      <<"{", OtherKeyTok, ":", ScamTok, ",", KeyTok, ":", LineTok, "}">>,
      <<"{", KeyTok, ":", ScamTok, ",", KeyTok, ":", LineTok, "}">>,
      <<"{", OtherKeyTok, ":", ScamTok, "}">>,
      <<"{", OtherKeyTok, ":", "{", KeyTok, ":", LineTok, "}", "}">>,
      <<"{", KeyTok, ":", LineTok, "}", "not">>,
      <<"{", KeyTok, ":", LineTok>>,
      <<"{", KeyTok, LineTok, "}">>,
      <<"[", "{", KeyTok, ":", LineTok, "}", "]">>,
      <<LineTok>>,
      <<"42">> }
ResponseTexts == SeqsUpTo(RespAlphabet, MaxRespLen) \cup SampleTexts

Systems == {"Darwin", "Windows", "Linux"}

\* ------------------------------------------------------------------- state
VARIABLES
    mock_call_text, caller_id, call_type,   \* arguments of screen_mock_call
    pc,                 \* the statement screen_mock_call is at
    err,                \* the step whose exception ended the run, "" while none
    log,                \* the steps invoked so far, in order
    prompt, ai_response_text, result, spoken_line,   \* locals of screen_mock_call
    ttsInput,           \* the text argument speak_with_openai was called with
    respOpen,           \* the streaming response context manager is entered
    fileOpen,           \* stream_to_file holds the destination file open
    audioFile,          \* the destination file: "absent", "partial", "complete"
    written,            \* chunks written to the destination file
    system,             \* what platform.system() returned, "" before the call
    paths,              \* the playback mechanisms invoked, in order
    proc,               \* the launched player: "none", "running", "exited"
    procStatus          \* its exit status once exited

vars == <<mock_call_text, caller_id, call_type, pc, err, log, prompt, ai_response_text,
          result, spoken_line, ttsInput, respOpen, fileOpen, audioFile, written,
          system, paths, proc, procStatus>>

inputVars == <<mock_call_text, caller_id, call_type>>
parseVars == <<ai_response_text, result, spoken_line>>
speakVars == <<ttsInput, respOpen, fileOpen, audioFile, written>>
playVars == <<system, paths, proc, procStatus>>

Init ==
    /\ mock_call_text \in Transcripts
    /\ caller_id \in CallerIds
    /\ call_type \in CallTypes
    /\ pc = "start"
    /\ err = ""
    /\ log = <<>>
    /\ prompt = <<>>
    /\ ai_response_text = <<>>
    /\ result = NoneNode
    /\ spoken_line = NoneNode
    /\ ttsInput = NoneNode
    /\ respOpen = FALSE
    /\ fileOpen = FALSE
    /\ audioFile = "absent"
    /\ written = 0
    /\ system = ""
    /\ paths = <<>>
    /\ proc = "none"
    /\ procStatus = 0

\* -------------------------------------------------------- screen_mock_call
\* context = CallContext(...); prompt = build_ai_input(mock_call_text, context)
BuildPrompt ==
    /\ pc = "start"
    /\ prompt' = build_ai_input(mock_call_text, CallContext(caller_id, call_type))
    /\ log' = Append(log, "build")
    /\ pc' = "classify"
    /\ UNCHANGED <<inputVars, err, parseVars, speakVars, playVars>>

\* ai_response_text = send_to_openai(prompt): the service answers with some text
SendToOpenAI ==
    /\ pc = "classify"
    /\ \E text \in ResponseTexts : ai_response_text' = text
    /\ log' = Append(log, "classify")
    /\ pc' = "parse"
    /\ UNCHANGED <<inputVars, err, prompt, result, spoken_line, speakVars, playVars>>

\* client.responses.create raises (network, authentication, service error)
SendToOpenAIRaises ==
    /\ pc = "classify"
    /\ log' = Append(log, "classify")
    /\ err' = "classify"
    /\ pc' = "raised"
    /\ UNCHANGED <<inputVars, prompt, parseVars, speakVars, playVars>>

FallbackResult == DictNode(<<Member(KEY, StrNode(FALLBACK))>>)

\* a parse step that asks the service again when the text does not decode
ParseRetrying ==
    /\ pc = "parse"
    /\ LET r == json_loads(ai_response_text)
       IN  /\ result' = IF r.ok THEN r.val ELSE result
           /\ pc' = IF r.ok THEN "extract" ELSE "classify"
    /\ log' = Append(log, "parse")
    /\ UNCHANGED <<inputVars, err, prompt, ai_response_text, spoken_line, speakVars, playVars>>

\* a parse step without the except clause
ParseUncaught ==
    /\ pc = "parse"
    /\ LET r == json_loads(ai_response_text)
       IN  /\ result' = IF r.ok THEN r.val ELSE result
           /\ pc' = IF r.ok THEN "extract" ELSE "raised"
           /\ err' = IF r.ok THEN err ELSE "parse"
    /\ log' = Append(log, "parse")
    /\ UNCHANGED <<inputVars, prompt, ai_response_text, spoken_line, speakVars, playVars>>

\* try: result = json.loads(ai_response_text)  except json.JSONDecodeError: result = {...}
Parse ==
    /\ pc = "parse"
    /\ LET r == json_loads(ai_response_text)
       IN  result' = IF r.ok THEN r.val ELSE FallbackResult
    /\ log' = Append(log, "parse")
    /\ pc' = "extract"
    /\ UNCHANGED <<inputVars, err, prompt, ai_response_text, spoken_line, speakVars, playVars>>

\* spoken_line = result.get("spoken_response_to_caller", FALLBACK); only a dict has .get
Extract ==
    /\ pc = "extract"
    /\ log' = Append(log, "extract")
    /\ IF result.t = "dict"
       THEN /\ spoken_line' = dict_get(result.kids, KEY, StrNode(FALLBACK))
            /\ pc' = "synth"
            /\ err' = err
       ELSE /\ spoken_line' = spoken_line
            /\ pc' = "raised"
            /\ err' = "extract"
    /\ UNCHANGED <<inputVars, prompt, ai_response_text, result, speakVars, playVars>>

\* ------------------------------------------------------- speak_with_openai
\* with client.audio.speech.with_streaming_response.create(input=text, ...) as response:
SpeakCreate ==
    /\ pc = "synth"
    /\ log' = Append(log, "synthesize")
    /\ ttsInput' = spoken_line
    /\ respOpen' = TRUE
    /\ pc' = "stream"
    /\ UNCHANGED <<inputVars, err, prompt, parseVars, fileOpen, audioFile, written, playVars>>

\* a synthesis failure after which the pipeline still goes on to playback
SpeakCreateRaisesThenPlays ==
    /\ pc = "synth"
    /\ log' = Append(log, "synthesize")
    /\ ttsInput' = spoken_line
    /\ err' = "synthesize"
    /\ pc' = "play"
    /\ UNCHANGED <<inputVars, prompt, parseVars, respOpen, fileOpen, audioFile, written, playVars>>

\* the request itself fails: nothing was entered, nothing was written
SpeakCreateRaises ==
    /\ pc = "synth"
    /\ log' = Append(log, "synthesize")
    /\ ttsInput' = spoken_line
    /\ err' = "synthesize"
    /\ pc' = "raised"
    /\ UNCHANGED <<inputVars, prompt, parseVars, respOpen, fileOpen, audioFile, written, playVars>>

\* response.stream_to_file(audio_path) opens the destination for writing, truncating it
StreamToFileOpen ==
    /\ pc = "stream"
    /\ fileOpen' = TRUE
    /\ audioFile' = "partial"
    /\ written' = 0
    /\ pc' = "writing"
    /\ UNCHANGED <<inputVars, err, log, prompt, parseVars, ttsInput, respOpen, playVars>>

\* the destination cannot be opened: the with statement exits and closes the response
StreamToFileOpenRaises ==
    /\ pc = "stream"
    /\ respOpen' = FALSE
    /\ err' = "synthesize"
    /\ pc' = "raised"
    /\ UNCHANGED <<inputVars, log, prompt, parseVars, ttsInput, fileOpen, audioFile, written, playVars>>

\* one chunk of the audio stream is written
StreamChunk ==
    /\ pc = "writing"
    /\ written < MaxChunks
    /\ written' = written + 1
    /\ UNCHANGED <<inputVars, pc, err, log, prompt, parseVars, ttsInput, respOpen, fileOpen,
                   audioFile, playVars>>

\* a streaming error that escapes without leaving the with statement's scope guard
StreamRaisesLeaking ==
    /\ pc = "writing"
    /\ err' = "synthesize"
    /\ pc' = "raised"
    /\ UNCHANGED <<inputVars, log, prompt, parseVars, ttsInput, respOpen, fileOpen, audioFile,
                   written, playVars>>

\* the stream or a write fails part-way: both scopes exit, the file stays as written so far
StreamRaises ==
    /\ pc = "writing"
    /\ fileOpen' = FALSE
    /\ respOpen' = FALSE
    /\ err' = "synthesize"
    /\ pc' = "raised"
    /\ UNCHANGED <<inputVars, log, prompt, parseVars, ttsInput, audioFile, written, playVars>>

\* the stream ends: both scopes exit and speak_with_openai returns audio_path
StreamEnd ==
    /\ pc = "writing"
    /\ fileOpen' = FALSE
    /\ respOpen' = FALSE
    /\ audioFile' = "complete"
    /\ pc' = "play"
    /\ UNCHANGED <<inputVars, err, log, prompt, parseVars, ttsInput, written, playVars>>

\* -------------------------------------------------------------- play_audio
\* the mechanisms an if / if / else chain would invoke
DispatchFallingThrough(sys) ==
    (IF sys = "Darwin" THEN <<"afplay">> ELSE <<>>)
    \o (IF sys = "Windows" THEN <<"startfile">> ELSE <<"xdg-open">>)

\* if system == "Darwin": afplay  elif system == "Windows": os.startfile  else: xdg-open
Dispatch(sys) ==
    IF sys = "Darwin" THEN <<"afplay">>
    ELSE IF sys = "Windows" THEN <<"startfile">>
    ELSE <<"xdg-open">>

\* subprocess.run blocks until the child exits; os.startfile returns at once
Blocking(mechanism) == mechanism # "startfile"

\* system = platform.system(); the selected mechanism launches the player
PlayAudio ==
    /\ pc = "play"
    /\ log' = Append(log, "play")
    /\ \E sys \in Systems :
         /\ system' = sys
         /\ paths' = paths \o Dispatch(sys)
         /\ pc' = IF Blocking(Dispatch(sys)[1]) THEN "play_wait" ELSE "done"
    /\ proc' = "running"
    /\ UNCHANGED <<inputVars, err, prompt, parseVars, speakVars, procStatus>>

\* the launch fails: afplay or xdg-open is not installed, os.startfile finds no handler
PlayAudioRaises ==
    /\ pc = "play"
    /\ log' = Append(log, "play")
    /\ \E sys \in Systems :
         /\ system' = sys
         /\ paths' = paths \o Dispatch(sys)
    /\ err' = "play"
    /\ pc' = "raised"
    /\ UNCHANGED <<inputVars, prompt, parseVars, speakVars, proc, procStatus>>

\* the launched player ends, with any exit status
ProcExit ==
    /\ proc = "running"
    /\ proc' = "exited"
    /\ \E status \in {0, 1} : procStatus' = status
    /\ UNCHANGED <<inputVars, pc, err, log, prompt, parseVars, speakVars, system, paths>>

\* a launch that does not wait for the child (subprocess.Popen)
SubprocessRunReturnNoWait ==
    /\ pc = "play_wait"
    /\ pc' = "done"
    /\ UNCHANGED <<inputVars, err, log, prompt, parseVars, speakVars, playVars>>

\* a run that checks the exit status (check=True)
SubprocessRunReturnChecked ==
    /\ pc = "play_wait"
    /\ proc = "exited"
    /\ pc' = IF procStatus = 0 THEN "done" ELSE "raised"
    /\ err' = IF procStatus = 0 THEN err ELSE "play"
    /\ UNCHANGED <<inputVars, log, prompt, parseVars, speakVars, playVars>>

\* subprocess.run(..., check=False) returns once the child has exited; the status is dropped
SubprocessRunReturn ==
    /\ pc = "play_wait"
    /\ proc = "exited"
    /\ pc' = "done"
    /\ UNCHANGED <<inputVars, err, log, prompt, parseVars, speakVars, playVars>>

\* ----------------------------------------------------------- specification
Next ==
    \/ BuildPrompt
    \/ SendToOpenAI
    \/ SendToOpenAIRaises
    \/ Parse
    \/ Extract
    \/ SpeakCreate
    \/ SpeakCreateRaises
    \/ StreamToFileOpen
    \/ StreamToFileOpenRaises
    \/ StreamChunk
    \/ StreamRaises
    \/ StreamEnd
    \/ PlayAudio
    \/ PlayAudioRaises
    \/ ProcExit
    \/ SubprocessRunReturn

Spec == Init /\ [][Next]_vars

\* ------------------------------------------------------------- properties
AllSteps == <<"build", "classify", "parse", "extract", "synthesize", "play">>
Invoked(step) == \E i \in 1..Len(log) : log[i] = step
Times(step) == Cardinality({i \in 1..Len(log) : log[i] = step})
Decoded == json_loads(ai_response_text)
HasKey(node) == node.t = "dict" /\ \E i \in 1..Len(node.kids) : node.kids[i].s = KEY

\* C1: classification output that does not decode as JSON never makes the parse step
\* raise; the spoken line resolved from it is exactly the fixed fallback string, and
\* that string is what speech synthesis is called with.
C1_InvalidJsonFallsBack ==
    (Invoked("parse") /\ ~Decoded.ok) =>
        /\ err \notin {"parse", "extract"}
        /\ result = FallbackResult
        /\ Invoked("extract") => (spoken_line = StrNode(FALLBACK) /\ pc # "extract")
        /\ Invoked("synthesize") => ttsInput = StrNode(FALLBACK)

C1_Witness ==
    /\ ai_response_text = <<"not", "json">>
    /\ Invoked("synthesize")
    /\ ttsInput = StrNode(FALLBACK)

\* C2: when the classification output is a JSON object holding the key
\* spoken_response_to_caller, the spoken line is that key's decoded value, whatever
\* its type, and speech synthesis is called with exactly that value.
C2_KeyValueUnchanged ==
    (Invoked("extract") /\ Decoded.ok /\ HasKey(Decoded.val)) =>
        /\ err # "extract"
        /\ \E i \in 1..Len(Decoded.val.kids) :
              /\ Decoded.val.kids[i].s = KEY
              /\ spoken_line = Decoded.val.kids[i].kids[1]
        /\ Invoked("synthesize") => ttsInput = spoken_line
        /\ ai_response_text = <<"{", KeyTok, ":", LineTok, "}">>
              => spoken_line = StrNode("Please call back later.")

C2_Witness ==
    /\ ai_response_text = <<"{", KeyTok, ":", "null", "}">>
    /\ Invoked("synthesize")
    /\ ttsInput = NoneNode

\* C3: well-formed JSON that lacks the key spoken_response_to_caller never fails the
\* extraction step and resolves to the fixed fallback string, which is what speech
\* synthesis is called with.
C3_MissingKeyFallsBack ==
    (Invoked("extract") /\ Decoded.ok /\ ~HasKey(Decoded.val)) =>
        /\ err # "extract"
        /\ spoken_line = StrNode(FALLBACK)
        /\ Invoked("synthesize") => ttsInput = StrNode(FALLBACK)

\* C4: a completed run invoked build, classify, parse, extract, synthesize, play in
\* that order, each once, with synthesis given the resolved spoken line and one
\* playback mechanism invoked; in no run is a step repeated or taken out of order.
C4_LinearOrder ==
    /\ pc = "done" => (log = AllSteps /\ ttsInput = spoken_line /\ Len(paths) = 1)
    /\ Len(log) <= Len(AllSteps)
    /\ \A i \in 1..Len(log) : i <= Len(AllSteps) => log[i] = AllSteps[i]
    /\ \A i \in 1..Len(AllSteps) : Times(AllSteps[i]) <= 1

C4_Witness == pc = "done" /\ log = AllSteps

\* C5 as stated: only the classification call and the speech-synthesis call can end a
\* run abnormally; after a classification failure neither synthesis nor playback is
\* invoked, after a synthesis failure playback is not invoked.  It is stated here for
\* the runs in which extraction did not fail (the decoded output is a dict), so that
\* what refutes it is playback alone.
C5_OnlyServiceCallsEndRun ==
    err # "extract" =>
        /\ err \in {"", "classify", "synthesize"}
        /\ err = "classify" => (~Invoked("synthesize") /\ ~Invoked("play"))
        /\ err = "synthesize" => ~Invoked("play")

\* C5 amended: a run ends by completing or by the first exception, raised by the
\* classification call, the spoken-line extraction, the speech-synthesis call or the
\* playback launch, never by a JSON decoding failure; the failing step is the last one
\* invoked, and until the run has ended some step can always be taken.
C5_FirstExceptionEndsRun ==
    /\ err \in {"", "classify", "extract", "synthesize", "play"}
    /\ (pc = "raised") <=> (err # "")
    /\ err # "" => log[Len(log)] = err
    /\ err = "classify" => (~Invoked("synthesize") /\ ~Invoked("play"))
    /\ err = "synthesize" => ~Invoked("play")
    /\ pc \notin {"done", "raised"} => ENABLED Next

C5_Witness == err = "synthesize" /\ pc = "raised" /\ ~Invoked("play")

\* C6: one call of play_audio invokes exactly one playback mechanism, once, and it is
\* the one designated for the OS identity: afplay for "Darwin", os.startfile for
\* "Windows", xdg-open for anything else.
C6_OneDesignatedPath ==
    /\ ~Invoked("play") => paths = <<>>
    /\ Invoked("play") =>
          \/ system = "Darwin" /\ paths = <<"afplay">>
          \/ system = "Windows" /\ paths = <<"startfile">>
          \/ system \notin {"Darwin", "Windows"} /\ paths = <<"xdg-open">>

C6_Witness == pc = "done" /\ system = "Linux" /\ paths = <<"xdg-open">>

\* C7 as stated: on every OS path play_audio returns without waiting for the launched
\* player, so once it is launched the run is at its end or can move there at once.
C7_FireAndForget ==
    (Invoked("play") /\ err = "") => (pc = "done" \/ ENABLED SubprocessRunReturn)

\* C7 amended: only the os.startfile path returns without waiting; on the afplay and
\* xdg-open paths the run reaches its end only after the launched program has exited.
C7_WaitsExceptStartfile ==
    /\ (pc = "done" /\ system # "Windows") => proc = "exited"
    /\ (pc = "play_wait" /\ proc = "running") => ~ENABLED SubprocessRunReturn
    /\ (Invoked("play") /\ err = "" /\ system = "Windows") => pc = "done"

C7_Witness == pc = "done" /\ system = "Darwin" /\ proc = "exited"

\* C8 as stated: on the afplay and xdg-open paths no playback failure raises; only the
\* os.startfile path can raise.
C8_CommandPathsNeverRaise ==
    /\ system \in {"Darwin", "Linux"} => err # "play"
    /\ (system \in {"Darwin", "Linux"} /\ proc = "exited") => pc \in {"play_wait", "done"}

\* C8 amended: on the afplay and xdg-open paths the exit status of the launched program
\* never raises and the run completes normally whatever it is; a playback failure
\* raises only when the launch itself fails, which it can on all three paths.
C8_ExitStatusDiscarded ==
    /\ (system \in {"Darwin", "Linux"} /\ proc = "exited") =>
          (err = "" /\ pc \in {"play_wait", "done"})
    /\ err = "play" => (proc = "none" /\ pc = "raised")

C8_Witness == pc = "done" /\ system = "Linux" /\ proc = "exited" /\ procStatus = 1

\* C9: the prompt build_ai_input returns contains the transcript verbatim as one
\* contiguous piece and every string of SECURITY_RULES, for every transcript and
\* context, and building it changes nothing else.
C9_PromptContainsTranscriptAndRules ==
    /\ pc = "classify" =>
          /\ Contains(prompt, mock_call_text)
          /\ \A i \in 1..Len(SECURITY_RULES) : Contains(prompt, SECURITY_RULES[i])
          /\ log = <<"build">>
          /\ err = "" /\ ai_response_text = <<>> /\ result = NoneNode
          /\ spoken_line = NoneNode /\ ttsInput = NoneNode
          /\ ~respOpen /\ ~fileOpen /\ audioFile = "absent" /\ written = 0
          /\ system = "" /\ paths = <<>> /\ proc = "none"

C9_Witness ==
    /\ pc = "classify"
    /\ mock_call_text = <<Quote, Quote, Quote>>
    /\ caller_id = NoneStr

\* C10: outside the with statement of speak_with_openai neither the streaming response
\* nor the destination file is held open, after a normal return and after an error
\* alike; an error during streaming leaves the partly written file in place and ends
\* the run.
C10_ResourcesReleased ==
    /\ pc \notin {"stream", "writing"} => (~respOpen /\ ~fileOpen)
    /\ err = "synthesize" => (pc = "raised" /\ ~Invoked("play"))
    /\ (err = "synthesize" /\ written > 0) => audioFile = "partial"
    /\ pc \in {"play", "play_wait", "done"} => audioFile = "complete"

C10_Witness == err = "synthesize" /\ written > 0 /\ audioFile = "partial" /\ ~respOpen

====
